---- MODULE Spec2Model ----
(***************************************************************************)
(* Service lifecycle supervisor of the Deterna bot: BaseService            *)
(* (onEnableService / onDisableService / healthCheck) and ServiceManager   *)
(* (register, start, stop, health checks, auto-restart).                   *)
(*                                                                         *)
(* The program is single-threaded and asynchronous.  Every `await` is a    *)
(* suspension point: an action runs the code from one suspension point to  *)
(* the next.  A task is either blocked on a hook of a service ("hook") or  *)
(* its awaited call has already returned and its continuation is queued    *)
(* ("ready").  Hooks are external code: their outcome is chosen            *)
(* nondeterministically when they return.                                  *)
(***************************************************************************)
EXTENDS Integers, Sequences, FiniteSets, TLC

\* ------------------------------------------------------------------ bounds
MaxServices == 3
MaxDeps == 2
MaxPriority == 2
MaxStarts == 1
MaxStops == 1
MaxTicks == 1
MaxSupervised == 2
MaxCallers == 2
MaxHeld == 1
MaxHandlers == 2
MaxRegistrations == 3

AllIds == <<"A", "B", "C", "D", "E">>
Ids == {AllIds[i] : i \in 1..MaxServices}
Priorities == 1..MaxPriority

\* The services that other code holds and calls directly.
Held == {AllIds[i] : i \in 1..MaxHeld}

\* ServiceStatus (types.ts)
sDISABLED == "disabled"
sENABLING == "enabling"
sENABLED == "enabled"
sDISABLING == "disabling"
sERROR == "error"
ServiceStatus == {sDISABLED, sENABLING, sENABLED, sDISABLING, sERROR}

\* What a hook does when it is awaited under withTimeout: it resolves, it
\* rejects, or the timer of the race rejects first.
HookOutcomes == {"ok", "throw", "timeout"}

\* lastError values: null, or the kind of Error stored.
NoError == "null"
AlreadyStarted == "already_started"
AlreadyStopped == "already_stopped"

NoTime == 0

VARIABLES
    services,        \* ServiceManager.services: identifiers in Map insertion order
    config,          \* service.config of each identifier
    status,          \* BaseService.status
    lastError,       \* BaseService.lastError
    startTime,       \* BaseService.startTime (NoTime = null)
    isShuttingDown,  \* ServiceManager.isShuttingDown
    healthCheckInterval, \* TRUE iff the interval timer is set
    clock,           \* Date.now()
    startB,          \* the start() call in progress / its result
    stopB,           \* the stop() call in progress / its result
    orphans,         \* stopSingleService calls that lost the graceful-shutdown race
    restarts,        \* handleUnhealthyService calls in progress
    ticks,           \* health-check timer callbacks in progress
    nStarts, nStops, nTicks, \* calls made so far (bounded)
    callers,         \* the calls other code has in progress: startService,
                     \* stopService, and calls made on a service directly
    eventHandlers,   \* ServiceManager.eventHandlers: the handlers of each event
                     \* type, in the order of their array
    unsubscribes,    \* the unsubscribe callbacks onEvent has returned
    ret,             \* the BaseService call that returned in the last step
    calls,           \* the BaseService calls made by the last step
    emitted          \* the events emitted by the last step

vars == <<services, config, status, lastError, startTime, isShuttingDown,
          healthCheckInterval, clock, startB, stopB, orphans, restarts, ticks,
          nStarts, nStops, nTicks, callers, eventHandlers, unsubscribes,
          ret, calls, emitted>>

\* ------------------------------------------------------------- helpers
Range(s) == {s[i] : i \in 1..Len(s)}

Registered == Range(services)

NoConfig == [priority |-> 0, dependencies |-> <<>>, restartOnError |-> FALSE]

\* Dependency arrays a service may declare: no repeats, at most MaxDeps long.
DepSeqs ==
    {d \in UNION {[1..n -> Ids] : n \in 0..MaxDeps} :
        \A i, j \in 1..Len(d) : d[i] = d[j] => i = j}

NoRet == [op |-> "none"]

\* A batch (start() or stop()): where it stands, the services still to do
\* (the head is the one being awaited), its result so far, how the awaited
\* operation ended (`outcome`: how its hook settled, "none" if no hook was
\* invoked); and, as observations, the services its operation was called
\* on, in order, and whether it was called after a stop() had returned (as
\* the start() of restart() is).
IdleBatch == [st |-> "idle", queue |-> <<>>, succeeded |-> <<>>, failed |-> <<>>,
              thrown |-> FALSE, timedOut |-> FALSE,
              outcome |-> "none", order |-> <<>>, afterStop |-> FALSE]

\* A caller's call in progress: the operation, the service, where it stands,
\* whether the awaited BaseService call threw and how its hook settled.
IdleCaller == [op |-> "idle", svc |-> "none", st |-> "idle", thrown |-> FALSE,
               outcome |-> "none"]

\* ------------------------------------------------------------ events
\* ServiceManagerEvents (types.ts), and the key under which handlers of all
\* events are kept.
ServiceManagerEvents ==
    {"service_registered", "service_started", "service_stopped", "service_error",
     "health_check_failed", "batch_operation_completed"}

Wildcard == "*"

EventTypes == ServiceManagerEvents \cup {Wildcard}

\* The handler functions passed to onEvent.  What a handler does is its own
\* business: the even ones throw when invoked, the odd ones return.
Handlers == 1..MaxHandlers

HandlerThrows(h) == h % 2 = 0

\* Variant: the loop over the handlers without its try/catch, so that the
\* first handler that throws ends the emission and the error propagates.
emitEventStopsAtThrow(eventType) ==
    LET all == eventHandlers[eventType] \o eventHandlers[Wildcard]
        bad == {i \in 1..Len(all) : HandlerThrows(all[i].fn)}
        first == IF bad = {} THEN Len(all) ELSE CHOOSE i \in bad : \A j \in bad : i <= j
    IN [invoked |-> SubSeq(all, 1, first), thrown |-> bad # {}]

\* emitEvent(eventType, event): the handlers invoked, in order (each one in
\* a try/catch), and whether emitEvent itself throws.
emitEvent(eventType) ==
    [invoked |-> eventHandlers[eventType] \o eventHandlers[Wildcard],
     thrown |-> FALSE]

\* The slot a new call takes: the first idle one (callers are anonymous).
FreeCaller(c) ==
    /\ callers[c].st = "idle"
    /\ \A k \in 1..(c - 1) : callers[k].st # "idle"

Event(kind, id, operation) == [event |-> kind, serviceId |-> id, operation |-> operation]

\* ------------------------------------------------------- BaseService
\* The state of one service as a record.
Svc(s) == [status |-> status[s], lastError |-> lastError[s], startTime |-> startTime[s]]

\* onEnableService up to its first await: the status guard (early return) or
\* the transition to sENABLING with the hook invoked.
EnableGuardFails(r) == r.status # sDISABLED

\* Variant: lastError is not cleared when the guard is passed.
EnableBeginKeepsError(r) ==
    IF EnableGuardFails(r)
    THEN [r EXCEPT !.lastError = AlreadyStarted]
    ELSE [r EXCEPT !.status = sENABLING]

EnableBegin(r) ==
    IF EnableGuardFails(r)
    THEN [r EXCEPT !.lastError = AlreadyStarted]
    ELSE [r EXCEPT !.status = sENABLING, !.lastError = NoError]

\* onEnableService after the hook's race settled with `outcome`: the catch
\* block, then the finally block.  `thrown` says whether the call rejects.
EnableCatch(r, outcome) ==
    IF outcome # "ok" THEN [r EXCEPT !.status = sERROR, !.lastError = outcome] ELSE r

\* Variant: the finally block without its startTime assignment.
EnableFinallyNoStartTime(r, now) == [r EXCEPT !.status = sENABLED]

EnableFinally(r, now) == [r EXCEPT !.status = sENABLED, !.startTime = now]

EnableThrows(outcome) == FALSE

EnableEnd(r, outcome, now) == EnableFinally(EnableCatch(r, outcome), now)

\* onDisableService up to its first await.
DisableGuardFails(r) == r.status = sDISABLED

DisableBegin(r) ==
    IF DisableGuardFails(r)
    THEN [r EXCEPT !.lastError = AlreadyStopped]
    ELSE [r EXCEPT !.status = sDISABLING, !.lastError = NoError]

DisableCatch(r, outcome) ==
    IF outcome # "ok" THEN [r EXCEPT !.status = sERROR, !.lastError = outcome] ELSE r

\* Variant: the finally block left out.
DisableFinallyMissing(r) == r

DisableFinally(r) == [r EXCEPT !.status = sDISABLED, !.startTime = NoTime]

DisableThrows(outcome) == FALSE

\* Variant: DISABLED only when the hook succeeded (as enable does in the
\* older BaseService.onEnable).
DisableEndOnSuccessOnly(r, outcome) ==
    IF outcome = "ok" THEN DisableFinally(r) ELSE DisableCatch(r, outcome)

DisableEnd(r, outcome) == DisableFinally(DisableCatch(r, outcome))

\* Writes one service's record back into the three fields.
SetSvc(s, r) ==
    /\ status' = [status EXCEPT ![s] = r.status]
    /\ lastError' = [lastError EXCEPT ![s] = r.lastError]
    /\ startTime' = [startTime EXCEPT ![s] = r.startTime]

\* --------------------------------------------------- getSortedServices
\* Array.prototype.sort with (a, b) => b.priority - a.priority: a stable
\* sort by descending priority.
\* Variant: a sort that is not stable, a service going before the services
\* of its priority that were registered earlier.
InsertByPriorityTiesReversed(sorted, s) ==
    SelectSeq(sorted, LAMBDA x : config[x].priority > config[s].priority)
        \o <<s>>
        \o SelectSeq(sorted, LAMBDA x : config[x].priority <= config[s].priority)

RECURSIVE InsertByPriority(_, _)
InsertByPriority(sorted, s) ==
    IF sorted = <<>> THEN <<s>>
    ELSE IF config[Head(sorted)].priority >= config[s].priority
         THEN <<Head(sorted)>> \o InsertByPriority(Tail(sorted), s)
         ELSE <<s>> \o sorted

RECURSIVE SortByPriority(_)
SortByPriority(seq) ==
    IF seq = <<>> THEN <<>>
    ELSE InsertByPriority(SortByPriority(SubSeq(seq, 1, Len(seq) - 1)), seq[Len(seq)])

\* visit(service): post-order depth-first visit along the dependencies.
RECURSIVE visit(_, _)
RECURSIVE visitDeps(_, _, _)
visit(s, acc) ==
    IF acc.circular # "none" THEN acc
    ELSE IF s \in acc.visiting THEN [acc EXCEPT !.circular = s]
    ELSE IF s \in acc.visited THEN acc
    ELSE LET a1 == [acc EXCEPT !.visiting = @ \cup {s}]
             a2 == visitDeps(config[s].dependencies, 1, a1)
         IN IF a2.circular # "none" THEN a2
            ELSE [a2 EXCEPT !.visiting = @ \ {s},
                            !.visited = @ \cup {s},
                            !.sorted = Append(@, s)]

visitDeps(deps, i, acc) ==
    IF i > Len(deps) THEN acc
    ELSE visitDeps(deps, i + 1,
                   IF deps[i] \in Registered THEN visit(deps[i], acc) ELSE acc)

RECURSIVE visitAll(_, _)
visitAll(seq, acc) ==
    IF seq = <<>> THEN acc ELSE visitAll(Tail(seq), visit(Head(seq), acc))

\* Variant: the priority sort without the dependency visit.
getSortedServicesByPriorityOnly == SortByPriority(services)

\* Variant: the visit without its `visited` check, so that a service is
\* emitted again after each of its dependents' visits.
RECURSIVE visitAgain(_)
RECURSIVE visitAgainAll(_)
visitAgain(s) == visitAgainAll(config[s].dependencies) \o <<s>>

visitAgainAll(seq) ==
    IF seq = <<>> THEN <<>> ELSE visitAgain(Head(seq)) \o visitAgainAll(Tail(seq))

getSortedServicesRevisiting == visitAgainAll(SortByPriority(services))

getSortedServices ==
    visitAll(SortByPriority(services),
             [sorted |-> <<>>, visited |-> {}, visiting |-> {}, circular |-> "none"]).sorted

\* getSortedServices throws "Circular dependency detected": the visit met a
\* service that is being visited.
getSortedServicesThrows ==
    visitAll(SortByPriority(services),
             [sorted |-> <<>>, visited |-> {}, visiting |-> {}, circular |-> "none"]).circular
        # "none"

Reverse(seq) == [i \in 1..Len(seq) |-> seq[Len(seq) + 1 - i]]

\* ------------------------------------------------------------ register
\* Variant: only the dependencies are validated, a registered identifier
\* is accepted again.
validateServiceRegistrationDuplicates(id, cfg) ==
    \A i \in 1..Len(cfg.dependencies) : cfg.dependencies[i] \in Registered

\* Variant: only the identifier is validated, any dependency is accepted.
validateServiceRegistrationAnyDeps(id, cfg) == id \notin Registered

validateServiceRegistration(id, cfg) ==
    /\ id \notin Registered
    /\ \A i \in 1..Len(cfg.dependencies) : cfg.dependencies[i] \in Registered

\* Nothing has been started yet: services are registered at composition time.
Composing == nStarts = 0 /\ nStops = 0 /\ nTicks = 0

\* register(service): the try block (validate, store, emit, success result)
\* or the catch block (failure result); it returns in both, it never throws.
register(id, cfg) ==
    /\ Composing
    /\ IF validateServiceRegistration(id, cfg)
       THEN /\ services' = Append(services, id)
            /\ config' = [config EXCEPT ![id] = cfg]
            /\ emitted' = <<Event("service_registered", id, "none")>>
            /\ ret' = [op |-> "register", svc |-> id, cfg |-> cfg,
                       success |-> ~emitEvent("service_registered").thrown,
                       thrown |-> FALSE]
       ELSE /\ UNCHANGED <<services, config>>
            /\ emitted' = <<>>
            /\ ret' = [op |-> "register", svc |-> id, cfg |-> cfg,
                       success |-> FALSE, thrown |-> FALSE]
    /\ calls' = <<>>
    /\ UNCHANGED <<status, lastError, startTime, isShuttingDown, healthCheckInterval,
                   clock, startB, stopB, orphans, restarts, ticks,
                   nStarts, nStops, nTicks, callers, eventHandlers, unsubscribes>>

\* ------------------------------------------------- calls and returns
Call(op, s, by) ==
    [op |-> op, svc |-> s, by |-> by, hook |-> TRUE, thrown |-> FALSE, cleared |-> FALSE]

\* Whether onEnableService / onDisableService throws when its status guard
\* fails: it sets lastError and returns.
GuardThrows(op) == FALSE

\* A call of onEnableService / onDisableService on s by task `by`, run up to
\* its first await: the new record of s, whether the call is now blocked on
\* the hook, and the call as observed (`cleared`: it passed the guard while
\* lastError was set).
BeginCall(op, s, by) ==
    LET r == Svc(s)
        fails == IF op = "enable" THEN EnableGuardFails(r) ELSE DisableGuardFails(r)
        throws == fails /\ GuardThrows(op)
    IN [rec |-> IF op = "enable" THEN EnableBegin(r) ELSE DisableBegin(r),
        st |-> IF fails THEN "ready" ELSE "hook",
        thrown |-> throws,
        call |-> [Call(op, s, by) EXCEPT !.hook = ~fails, !.thrown = throws,
                                         !.cleared = ~fails /\ r.lastError # NoError]]

\* The hook of a blocked call settles with `outcome`: the rest of
\* onEnableService / onDisableService runs and the call returns or throws.
EndCall(op, s, outcome) ==
    [rec |-> IF op = "enable" THEN EnableEnd(Svc(s), outcome, clock)
             ELSE DisableEnd(Svc(s), outcome),
     thrown |-> IF op = "enable" THEN EnableThrows(outcome) ELSE DisableThrows(outcome)]

Returned(op, s, by, outcome, thrown) ==
    [op |-> op, svc |-> s, by |-> by, outcome |-> outcome, thrown |-> thrown]

\* ---------------------------------------------------------------- start
\* start(): getSortedServices, then executeServiceBatch up to the await of
\* the first startSingleService.
Start ==
    /\ nStarts < MaxStarts
    /\ startB.st \in {"idle", "done"}
    /\ nStarts' = nStarts + 1
    /\ LET sorted == getSortedServices
       IN IF sorted = <<>>
          THEN /\ startB' = [IdleBatch EXCEPT !.st = "ready",
                                              !.afterStop = (stopB.st = "done")]
               /\ calls' = <<>>
               /\ UNCHANGED <<status, lastError, startTime>>
          ELSE LET b == BeginCall("enable", Head(sorted), "start")
               IN /\ startB' = [IdleBatch EXCEPT !.st = b.st, !.thrown = b.thrown,
                                                 !.queue = sorted,
                                                 !.order = <<Head(sorted)>>,
                                                 !.afterStop = (stopB.st = "done")]
                  /\ calls' = <<b.call>>
                  /\ SetSvc(Head(sorted), b.rec)
    /\ ret' = NoRet
    /\ emitted' = <<>>
    /\ UNCHANGED <<eventHandlers, unsubscribes, callers, services, config, isShuttingDown, healthCheckInterval, clock,
                   stopB, orphans, restarts, ticks, nStops, nTicks>>

\* The enable hook awaited by the start batch settles.
StartEnableReturns ==
    /\ startB.st = "hook"
    /\ \E outcome \in HookOutcomes :
        LET s == Head(startB.queue)
            e == EndCall("enable", s, outcome)
        IN /\ SetSvc(s, e.rec)
           /\ startB' = [startB EXCEPT !.st = "ready", !.thrown = e.thrown,
                  !.outcome = outcome]
           /\ ret' = Returned("enable", s, "start", outcome, e.thrown)
    /\ calls' = <<>>
    /\ emitted' = <<>>
    /\ UNCHANGED <<eventHandlers, unsubscribes, callers, services, config, isShuttingDown, healthCheckInterval, clock,
                   stopB, orphans, restarts, ticks, nStarts, nStops, nTicks>>

\* startSingleService after its await (try: SERVICE_STARTED, success; catch:
\* SERVICE_ERROR "start", failure), executeServiceBatch pushing the result and
\* going on to the next service; after the last one start() starts the health
\* checks and emits BATCH_OPERATION_COMPLETED.
StartResume ==
    /\ startB.st = "ready"
    /\ LET done == startB.queue = <<>>
           s == Head(startB.queue)
           rest == Tail(startB.queue)
           caught == startB.thrown \/ emitEvent("service_started").thrown
           succ == IF done \/ caught THEN startB.succeeded
                   ELSE Append(startB.succeeded, s)
           fail == IF ~done /\ caught THEN Append(startB.failed, s)
                   ELSE startB.failed
           ev == IF done THEN <<>>
                 ELSE IF startB.thrown THEN <<Event("service_error", s, "start")>>
                 ELSE IF caught THEN <<Event("service_started", s, "none"),
                                       Event("service_error", s, "start")>>
                 ELSE <<Event("service_started", s, "none")>>
       IN IF done \/ rest = <<>>
          THEN /\ startB' = [startB EXCEPT !.st = "done", !.queue = <<>>,
                                           !.succeeded = succ, !.failed = fail,
                                           !.thrown = FALSE, !.outcome = "none"]
               /\ healthCheckInterval' = TRUE
               /\ emitted' = ev \o <<Event("batch_operation_completed",
                                           "service-manager", "start")>>
               /\ calls' = <<>>
               /\ UNCHANGED <<status, lastError, startTime>>
          ELSE LET b == BeginCall("enable", Head(rest), "start")
               IN /\ startB' = [startB EXCEPT !.st = b.st, !.queue = rest,
                                              !.succeeded = succ, !.failed = fail,
                                              !.thrown = b.thrown, !.outcome = "none",
                                              !.order = Append(@, Head(rest))]
                  /\ SetSvc(Head(rest), b.rec)
                  /\ calls' = <<b.call>>
                  /\ emitted' = ev
                  /\ UNCHANGED healthCheckInterval
    /\ ret' = NoRet
    /\ UNCHANGED <<eventHandlers, unsubscribes, callers, services, config, isShuttingDown, clock,
                   stopB, orphans, restarts, ticks, nStarts, nStops, nTicks>>

\* ----------------------------------------------------------------- stop
\* stop(): isShuttingDown, stopHealthChecks, the reversed order, then
\* executeServiceBatch (with the graceful-shutdown deadline) up to the await
\* of the race of the first stopSingleService.
\* Variant: the startup order, not reversed.
StopOrderNotReversed == getSortedServices

StopOrder == Reverse(getSortedServices)

Stop ==
    /\ nStops < MaxStops
    /\ stopB.st \in {"idle", "done"}
    /\ nStops' = nStops + 1
    /\ isShuttingDown' = TRUE
    /\ healthCheckInterval' = FALSE
    /\ LET sorted == StopOrder
       IN IF sorted = <<>>
          THEN /\ stopB' = [IdleBatch EXCEPT !.st = "ready"]
               /\ calls' = <<>>
               /\ UNCHANGED <<status, lastError, startTime>>
          ELSE LET b == BeginCall("disable", Head(sorted), "stop")
               IN /\ stopB' = [IdleBatch EXCEPT !.st = b.st, !.thrown = b.thrown,
                                                !.queue = sorted,
                                                !.order = <<Head(sorted)>>]
                  /\ calls' = <<b.call>>
                  /\ SetSvc(Head(sorted), b.rec)
    /\ ret' = NoRet
    /\ emitted' = <<>>
    /\ UNCHANGED <<eventHandlers, unsubscribes, callers, services, config, clock, startB, orphans, restarts, ticks,
                   nStarts, nTicks>>

\* The disable hook awaited by the stop batch settles.
StopDisableReturns ==
    /\ stopB.st = "hook"
    /\ \E outcome \in HookOutcomes :
        LET s == Head(stopB.queue)
            e == EndCall("disable", s, outcome)
        IN /\ SetSvc(s, e.rec)
           /\ stopB' = [stopB EXCEPT !.st = "ready", !.thrown = e.thrown,
                  !.outcome = outcome]
           /\ ret' = Returned("disable", s, "stop", outcome, e.thrown)
    /\ calls' = <<>>
    /\ emitted' = <<>>
    /\ UNCHANGED <<eventHandlers, unsubscribes, callers, services, config, isShuttingDown, healthCheckInterval, clock,
                   startB, orphans, restarts, ticks, nStarts, nStops, nTicks>>

\* The graceful-shutdown timer wins the race against the pending
\* stopSingleService: the batch goes on, the operation stays in flight.
StopTimeout ==
    /\ stopB.st = "hook"
    /\ stopB' = [stopB EXCEPT !.st = "ready", !.timedOut = TRUE]
    /\ orphans' = orphans \cup {[svc |-> Head(stopB.queue), n |-> nStops]}
    /\ ret' = NoRet
    /\ calls' = <<>>
    /\ emitted' = <<>>
    /\ UNCHANGED <<eventHandlers, unsubscribes, callers, services, config, status, lastError, startTime, isShuttingDown,
                   healthCheckInterval, clock, startB, restarts, ticks,
                   nStarts, nStops, nTicks>>

\* A stopSingleService that lost the race: its disable hook settles and it
\* emits its event; nobody reads its result.
OrphanDisableReturns ==
    \E o \in orphans, outcome \in HookOutcomes :
        LET e == EndCall("disable", o.svc, outcome)
        IN /\ SetSvc(o.svc, e.rec)
           /\ orphans' = orphans \ {o}
           /\ ret' = Returned("disable", o.svc, "orphan", outcome, e.thrown)
           /\ emitted' = IF e.thrown THEN <<Event("service_error", o.svc, "stop")>>
                         ELSE <<Event("service_stopped", o.svc, "none")>>
           /\ calls' = <<>>
           /\ UNCHANGED <<eventHandlers, unsubscribes, callers, services, config, isShuttingDown, healthCheckInterval, clock,
                          startB, stopB, restarts, ticks, nStarts, nStops, nTicks>>

\* stopSingleService after its await, executeServiceBatch pushing the result
\* (or the timeout) and going on to the next service.
StopResume ==
    /\ stopB.st = "ready"
    /\ LET done == stopB.queue = <<>>
           s == Head(stopB.queue)
           rest == Tail(stopB.queue)
           bad == stopB.thrown \/ stopB.timedOut
           succ == IF done \/ bad THEN stopB.succeeded
                   ELSE Append(stopB.succeeded, s)
           fail == IF ~done /\ bad THEN Append(stopB.failed, s)
                   ELSE stopB.failed
           ev == IF done \/ stopB.timedOut THEN <<>>
                 ELSE IF stopB.thrown THEN <<Event("service_error", s, "stop")>>
                 ELSE <<Event("service_stopped", s, "none")>>
       IN IF done \/ rest = <<>>
          THEN /\ stopB' = [stopB EXCEPT !.st = "done", !.queue = <<>>,
                                         !.succeeded = succ, !.failed = fail,
                                         !.thrown = FALSE, !.timedOut = FALSE,
                                         !.outcome = "none"]
               /\ emitted' = ev
               /\ calls' = <<>>
               /\ UNCHANGED <<status, lastError, startTime>>
          ELSE LET b == BeginCall("disable", Head(rest), "stop")
               IN /\ stopB' = [stopB EXCEPT !.st = b.st, !.queue = rest,
                                            !.succeeded = succ, !.failed = fail,
                                            !.thrown = b.thrown, !.timedOut = FALSE,
                                            !.outcome = "none",
                                            !.order = Append(@, Head(rest))]
                  /\ SetSvc(Head(rest), b.rec)
                  /\ calls' = <<b.call>>
                  /\ emitted' = ev
    /\ ret' = NoRet
    /\ UNCHANGED <<eventHandlers, unsubscribes, callers, services, config, isShuttingDown, healthCheckInterval, clock,
                   startB, orphans, restarts, ticks, nStarts, nStops, nTicks>>

\* -------------------------------------------------------- health checks
HealthOutcomes == {"true", "false", "throw", "timeout"}

\* Variant: the guard rejecting only a DISABLED service.
HealthGuardFailsOnlyDisabled(r) == r.status = sDISABLED

\* healthCheck() up to its first await: false at once unless ENABLED.
HealthGuardFails(r) == r.status # sENABLED

\* healthCheck() after the health hook's race settled: the hook's answer, or
\* the catch block (lastError set, false).
HealthEnd(r, h) ==
    [rec |-> IF h \in {"throw", "timeout"} THEN [r EXCEPT !.lastError = h] ELSE r,
     healthy |-> h = "true"]

\* The next service at or after position i of the services map that the
\* timer callback's loop health-checks (status ENABLED), 0 if none.
NextEnabledFrom(i) ==
    LET c == {j \in i..Len(services) : status[services[j]] = sENABLED}
    IN IF c = {} THEN 0 ELSE CHOOSE j \in c : \A k \in c : j <= k

HealthCall(s) == [op |-> "health", svc |-> s, by |-> "tick", hook |-> TRUE]

\* The interval timer fires: the callback returns at once while shutting
\* down, otherwise it loops up to the await of the first healthCheck().
Tick ==
    /\ healthCheckInterval
    /\ nTicks < MaxTicks
    /\ nTicks' = nTicks + 1
    /\ clock' = clock + 1
    /\ LET j == IF isShuttingDown THEN 0 ELSE NextEnabledFrom(1)
       IN IF j = 0
          THEN /\ calls' = <<>>
               /\ UNCHANGED ticks
          ELSE /\ ticks' = ticks \cup {[n |-> nTicks + 1, pos |-> j, st |-> "hook",
                                        healthy |-> TRUE]}
               /\ calls' = <<HealthCall(services[j])>>
    /\ ret' = NoRet
    /\ emitted' = <<>>
    /\ UNCHANGED <<eventHandlers, unsubscribes, callers, services, config, status, lastError, startTime, isShuttingDown,
                   healthCheckInterval, startB, stopB, orphans, restarts,
                   nStarts, nStops>>

\* The health hook awaited by a timer callback settles.
HealthReturns ==
    \E t \in ticks, h \in HealthOutcomes :
        /\ t.st = "hook"
        /\ LET s == services[t.pos]
               e == HealthEnd(Svc(s), h)
           IN /\ SetSvc(s, e.rec)
              /\ ticks' = (ticks \ {t}) \cup {[t EXCEPT !.st = "ready", !.healthy = e.healthy]}
              /\ ret' = Returned("health", s, "tick", h, FALSE)
        /\ calls' = <<>>
        /\ emitted' = <<>>
        /\ UNCHANGED <<eventHandlers, unsubscribes, callers, services, config, isShuttingDown, healthCheckInterval, clock,
                       startB, stopB, orphans, restarts, nStarts, nStops, nTicks>>

\* handleUnhealthyService(s) restarts s: the condition of its if.
WantsRestart(s) == config[s].restartOnError /\ ~isShuttingDown

NewRestart(s, n, b) ==
    [svc |-> s, tick |-> n, op |-> "disable", st |-> b.st, thrown |-> b.thrown,
     disables |-> 1, enables |-> 0, errors |-> 0, hookFailed |-> FALSE]

\* The timer callback after healthCheck() returned: handleUnhealthyService
\* (not awaited) runs up to its first await, then the loop goes on to the
\* await of the next healthCheck().
TickResume ==
    \E t \in ticks :
        /\ t.st = "ready"
        /\ LET s == services[t.pos]
               restart == ~t.healthy /\ WantsRestart(s)
               b == BeginCall("disable", s, "restart")
               j == IF t.pos < Len(services) THEN NextEnabledFrom(t.pos + 1) ELSE 0
           IN /\ emitted' = IF t.healthy THEN <<>>
                             ELSE <<Event("health_check_failed", s, "none")>>
              /\ IF restart
                 THEN /\ SetSvc(s, b.rec)
                      /\ restarts' = restarts \cup {NewRestart(s, t.n, b)}
                 ELSE UNCHANGED <<status, lastError, startTime, restarts>>
              /\ ticks' = IF j = 0 THEN ticks \ {t}
                          ELSE (ticks \ {t}) \cup {[t EXCEPT !.pos = j, !.st = "hook",
                                                             !.healthy = TRUE]}
              /\ calls' = (IF restart THEN <<b.call>> ELSE <<>>)
                          \o (IF j = 0 THEN <<>> ELSE <<HealthCall(services[j])>>)
        /\ ret' = NoRet
        /\ UNCHANGED <<eventHandlers, unsubscribes, callers, services, config, isShuttingDown, healthCheckInterval, clock,
                       startB, stopB, orphans, nStarts, nStops, nTicks>>

\* The hook awaited by an auto-restart (disable, then enable) settles.
RestartReturns ==
    \E r \in restarts, outcome \in HookOutcomes :
        /\ r.st = "hook"
        /\ LET e == EndCall(r.op, r.svc, outcome)
           IN /\ SetSvc(r.svc, e.rec)
              /\ restarts' = (restarts \ {r}) \cup
                    {[r EXCEPT !.st = "ready", !.thrown = e.thrown,
                               !.hookFailed = @ \/ outcome # "ok"]}
              /\ ret' = Returned(r.op, r.svc, "restart", outcome, e.thrown)
        /\ calls' = <<>>
        /\ emitted' = <<>>
        /\ UNCHANGED <<eventHandlers, unsubscribes, callers, services, config, isShuttingDown, healthCheckInterval, clock,
                       startB, stopB, orphans, ticks, nStarts, nStops, nTicks>>

\* handleUnhealthyService after an await: the catch block (SERVICE_ERROR
\* "restart") if the call threw, else onEnableService after onDisableService,
\* else the end of the try block.
RestartResume ==
    \E r \in restarts :
        /\ r.st = "ready"
        /\ LET b == BeginCall("enable", r.svc, "restart")
           IN IF r.thrown
              THEN /\ restarts' = (restarts \ {r}) \cup
                        {[r EXCEPT !.st = "done", !.errors = @ + 1]}
                   /\ emitted' = <<Event("service_error", r.svc, "restart")>>
                   /\ calls' = <<>>
                   /\ UNCHANGED <<status, lastError, startTime>>
              ELSE IF r.op = "disable"
              THEN /\ restarts' = (restarts \ {r}) \cup
                        {[r EXCEPT !.op = "enable", !.st = b.st, !.thrown = b.thrown,
                                   !.enables = @ + 1]}
                   /\ SetSvc(r.svc, b.rec)
                   /\ emitted' = <<>>
                   /\ calls' = <<b.call>>
              ELSE /\ restarts' = (restarts \ {r}) \cup {[r EXCEPT !.st = "done"]}
                   /\ emitted' = <<>>
                   /\ calls' = <<>>
                   /\ UNCHANGED <<status, lastError, startTime>>
        /\ ret' = NoRet
        /\ UNCHANGED <<eventHandlers, unsubscribes, callers, services, config, isShuttingDown, healthCheckInterval, clock,
                       startB, stopB, orphans, ticks, nStarts, nStops, nTicks>>

\* ------------------------------------------- calls made on a service
\* Code holding a service calls onEnableService / onDisableService on it:
\* the call runs up to its first await; if the status guard fails it has
\* returned already.
CallService(op) ==
    \E c \in 1..MaxCallers, s \in Held :
        /\ FreeCaller(c)
        /\ LET b == BeginCall(op, s, "caller")
           IN /\ SetSvc(s, b.rec)
              /\ callers' = [callers EXCEPT ![c] =
                    IF b.st = "hook"
                    THEN [IdleCaller EXCEPT !.op = op, !.svc = s, !.st = "hook"]
                    ELSE IdleCaller]
              /\ calls' = <<b.call>>
        /\ ret' = NoRet
        /\ emitted' = <<>>
        /\ UNCHANGED <<eventHandlers, unsubscribes, services, config, isShuttingDown, healthCheckInterval, clock,
                       startB, stopB, orphans, restarts, ticks, nStarts, nStops, nTicks>>

CallEnable == CallService("enable")

CallDisable == CallService("disable")

\* The hook awaited by a direct onEnableService / onDisableService settles.
CallerReturns ==
    \E c \in 1..MaxCallers, outcome \in HookOutcomes :
        /\ callers[c].st = "hook"
        /\ callers[c].op \in {"enable", "disable"}
        /\ LET s == callers[c].svc
               e == EndCall(callers[c].op, s, outcome)
           IN /\ SetSvc(s, e.rec)
              /\ ret' = Returned(callers[c].op, s, "caller", outcome, e.thrown)
        /\ callers' = [callers EXCEPT ![c] = IdleCaller]
        /\ calls' = <<>>
        /\ emitted' = <<>>
        /\ UNCHANGED <<eventHandlers, unsubscribes, services, config, isShuttingDown, healthCheckInterval, clock,
                       startB, stopB, orphans, restarts, ticks, nStarts, nStops, nTicks>>

\* Code holding a service calls healthCheck() on it: false at once if the
\* guard fails, else the health hook is awaited.
CallHealthCheck ==
    \E c \in 1..MaxCallers, s \in Held :
        /\ FreeCaller(c)
        /\ LET fails == HealthGuardFails(Svc(s))
           IN /\ callers' = [callers EXCEPT ![c] =
                    IF fails THEN IdleCaller
                    ELSE [IdleCaller EXCEPT !.op = "health", !.svc = s, !.st = "hook"]]
              /\ calls' = <<[HealthCall(s) EXCEPT !.by = "caller", !.hook = ~fails]>>
              /\ ret' = IF fails
                        THEN [op |-> "health", svc |-> s, by |-> "caller",
                              outcome |-> "none", thrown |-> FALSE, healthy |-> FALSE]
                        ELSE NoRet
        /\ emitted' = <<>>
        /\ UNCHANGED <<eventHandlers, unsubscribes, services, config, status, lastError, startTime, isShuttingDown,
                       healthCheckInterval, clock, startB, stopB, orphans, restarts,
                       ticks, nStarts, nStops, nTicks>>

\* The health hook awaited by a direct healthCheck() settles.
CallerHealthReturns ==
    \E c \in 1..MaxCallers, h \in HealthOutcomes :
        /\ callers[c].st = "hook"
        /\ callers[c].op = "health"
        /\ LET s == callers[c].svc
               e == HealthEnd(Svc(s), h)
           IN /\ SetSvc(s, e.rec)
              /\ ret' = [op |-> "health", svc |-> s, by |-> "caller",
                         outcome |-> h, thrown |-> FALSE, healthy |-> e.healthy]
        /\ callers' = [callers EXCEPT ![c] = IdleCaller]
        /\ calls' = <<>>
        /\ emitted' = <<>>
        /\ UNCHANGED <<eventHandlers, unsubscribes, services, config, isShuttingDown, healthCheckInterval, clock,
                       startB, stopB, orphans, restarts, ticks, nStarts, nStops, nTicks>>

\* ------------------------------------------- startService / stopService
\* getRequiredService(identifier) throws "not found".
getRequiredServiceThrows(id) == id \notin Registered

\* Variant: no dependency is looked at.
validateServiceDependenciesNone(id) == TRUE

\* validateServiceDependencies(service) passes: every dependency is
\* registered and ENABLED.
validateServiceDependencies(id) ==
    \A i \in 1..Len(config[id].dependencies) :
        LET dep == config[id].dependencies[i]
        IN dep \in Registered /\ status[dep] = sENABLED

\* Variant: no dependent is looked at.
validateServiceCanBeStoppedAlways(id) == TRUE

\* validateServiceCanBeStopped(service) passes: no ENABLED service has it
\* among its dependencies.
validateServiceCanBeStopped(id) ==
    ~\E s \in Registered :
        id \in Range(config[s].dependencies) /\ status[s] = sENABLED

\* startService / stopService rejects (the async function throws before
\* its await): nothing is called, nothing changes.
Rejected(op, id, error) ==
    /\ ret' = [op |-> op, svc |-> id, error |-> error, outcome |-> "none"]
    /\ calls' = <<>>
    /\ UNCHANGED <<callers, status, lastError, startTime>>

\* startService / stopService has validated: startSingleService /
\* stopSingleService runs up to the await of the BaseService call.
Accepted(c, op, bop, id) ==
    LET b == BeginCall(bop, id, op)
    IN /\ SetSvc(id, b.rec)
       /\ callers' = [callers EXCEPT ![c] =
             [IdleCaller EXCEPT !.op = op, !.svc = id, !.st = b.st, !.thrown = b.thrown]]
       /\ calls' = <<b.call>>
       /\ ret' = NoRet

startService ==
    \E c \in 1..MaxCallers, id \in Ids :
        /\ FreeCaller(c)
        /\ IF getRequiredServiceThrows(id)
           THEN Rejected("startService", id, "not_found")
           ELSE IF ~validateServiceDependencies(id)
           THEN Rejected("startService", id, "dependency_not_running")
           ELSE Accepted(c, "startService", "enable", id)
        /\ emitted' = <<>>
        /\ UNCHANGED <<eventHandlers, unsubscribes, services, config, isShuttingDown, healthCheckInterval, clock,
                       startB, stopB, orphans, restarts, ticks, nStarts, nStops, nTicks>>

stopService ==
    \E c \in 1..MaxCallers, id \in Ids :
        /\ FreeCaller(c)
        /\ IF getRequiredServiceThrows(id)
           THEN Rejected("stopService", id, "not_found")
           ELSE IF ~validateServiceCanBeStopped(id)
           THEN Rejected("stopService", id, "dependents_running")
           ELSE Accepted(c, "stopService", "disable", id)
        /\ emitted' = <<>>
        /\ UNCHANGED <<eventHandlers, unsubscribes, services, config, isShuttingDown, healthCheckInterval, clock,
                       startB, stopB, orphans, restarts, ticks, nStarts, nStops, nTicks>>

\* The hook awaited by startSingleService / stopSingleService on behalf of
\* startService / stopService settles.
TargetedReturns ==
    \E c \in 1..MaxCallers, outcome \in HookOutcomes :
        /\ callers[c].st = "hook"
        /\ callers[c].op \in {"startService", "stopService"}
        /\ LET s == callers[c].svc
               bop == IF callers[c].op = "startService" THEN "enable" ELSE "disable"
               e == EndCall(bop, s, outcome)
           IN /\ SetSvc(s, e.rec)
              /\ callers' = [callers EXCEPT ![c].st = "ready", ![c].thrown = e.thrown,
                                            ![c].outcome = outcome]
              /\ ret' = Returned(bop, s, callers[c].op, outcome, e.thrown)
        /\ calls' = <<>>
        /\ emitted' = <<>>
        /\ UNCHANGED <<eventHandlers, unsubscribes, services, config, isShuttingDown, healthCheckInterval, clock,
                       startB, stopB, orphans, restarts, ticks, nStarts, nStops, nTicks>>

\* startSingleService / stopSingleService after its await: the try block
\* (SERVICE_STARTED / SERVICE_STOPPED) or the catch block (SERVICE_ERROR),
\* a result returned in both; startService / stopService awaits it, drops
\* the result and returns.
TargetedResume ==
    \E c \in 1..MaxCallers :
        /\ callers[c].st = "ready"
        /\ callers[c].op \in {"startService", "stopService"}
        /\ LET s == callers[c].svc
               start == callers[c].op = "startService"
           IN /\ emitted' =
                    IF callers[c].thrown
                    THEN <<Event("service_error", s, IF start THEN "start" ELSE "stop")>>
                    ELSE <<Event(IF start THEN "service_started" ELSE "service_stopped",
                                 s, "none")>>
              /\ ret' = [op |-> callers[c].op, svc |-> s, error |-> "none",
                         outcome |-> callers[c].outcome]
        /\ callers' = [callers EXCEPT ![c] = IdleCaller]
        /\ calls' = <<>>
        /\ UNCHANGED <<eventHandlers, unsubscribes, services, config, status, lastError, startTime, isShuttingDown,
                       healthCheckInterval, clock, startB, stopB, orphans, restarts,
                       ticks, nStarts, nStops, nTicks>>

\* ------------------------------------------------- onEvent / unsubscribe
\* The event types handlers are subscribed to here: those that registering
\* and starting services emit, and the wildcard.
SubscribedTypes == {"service_registered", "service_started", Wildcard}

\* onEvent(eventType, handler): the handler is pushed on the array of the
\* event type and an unsubscribe callback is returned.  `reg` numbers the
\* registrations and `called` records that the callback has been called;
\* the program has neither.
onEvent ==
    \E eventType \in SubscribedTypes, handler \in Handlers :
        /\ Cardinality(unsubscribes) < MaxRegistrations
        /\ LET n == Cardinality(unsubscribes) + 1
           IN /\ eventHandlers' = [eventHandlers EXCEPT ![eventType] =
                                      Append(@, [fn |-> handler, reg |-> n])]
              /\ unsubscribes' = unsubscribes \cup
                    {[eventType |-> eventType, fn |-> handler, reg |-> n, called |-> FALSE]}
              /\ ret' = [op |-> "onEvent", reg |-> n]
        /\ calls' = <<>>
        /\ emitted' = <<>>
        /\ UNCHANGED <<callers, services, config, status, lastError, startTime,
                       isShuttingDown, healthCheckInterval, clock, startB, stopB,
                       orphans, restarts, ticks, nStarts, nStops, nTicks>>

\* handlers.indexOf(handler): the first position holding that function, 0
\* (for -1) if there is none.
indexOf(handlers, handler) ==
    LET found == {i \in 1..Len(handlers) : handlers[i].fn = handler}
    IN IF found = {} THEN 0 ELSE CHOOSE i \in found : \A j \in found : i <= j

\* handlers.splice(index, 1)
splice(handlers, index) ==
    SubSeq(handlers, 1, index - 1) \o SubSeq(handlers, index + 1, Len(handlers))

\* An unsubscribe callback is called (for the first time or again).
unsubscribe ==
    \E u \in unsubscribes :
        /\ LET handlers == eventHandlers[u.eventType]
               index == indexOf(handlers, u.fn)
           IN eventHandlers' = IF index > 0
                               THEN [eventHandlers EXCEPT ![u.eventType] = splice(handlers, index)]
                               ELSE eventHandlers
        /\ unsubscribes' = (unsubscribes \ {u}) \cup {[u EXCEPT !.called = TRUE]}
        /\ ret' = [op |-> "unsubscribe", reg |-> u.reg]
        /\ calls' = <<>>
        /\ emitted' = <<>>
        /\ UNCHANGED <<callers, services, config, status, lastError, startTime,
                       isShuttingDown, healthCheckInterval, clock, startB, stopB,
                       orphans, restarts, ticks, nStarts, nStops, nTicks>>

\* The handlers invoked by the i-th event the last step emitted.
invoked(i) == emitEvent(emitted[i].event).invoked

\* ---------------------------------------------------------------- Init
Init ==
    /\ services = <<>>
    /\ config = [s \in Ids |-> NoConfig]
    /\ status = [s \in Ids |-> sDISABLED]
    /\ lastError = [s \in Ids |-> NoError]
    /\ startTime = [s \in Ids |-> NoTime]
    /\ isShuttingDown = FALSE
    /\ healthCheckInterval = FALSE
    /\ clock = 1
    /\ startB = IdleBatch
    /\ stopB = IdleBatch
    /\ orphans = {}
    /\ restarts = {}
    /\ ticks = {}
    /\ nStarts = 0 /\ nStops = 0 /\ nTicks = 0
    /\ callers = [c \in 1..MaxCallers |-> IdleCaller]
    /\ eventHandlers = [k \in EventTypes |-> <<>>]
    /\ unsubscribes = {}
    /\ ret = NoRet
    /\ calls = <<>>
    /\ emitted = <<>>

\* The services the supervisor is composed of in the full specification:
\* a service A, a dependent B of it with a higher priority, and independent
\* services, each with either restart policy.
Catalog ==
    [s \in Ids |->
        IF s = "A" THEN [priority |-> 1, dependencies |-> <<>>, restartOnError |-> TRUE]
        ELSE IF s = "B"
        THEN [priority |-> 2, dependencies |-> <<"A">>, restartOnError |-> TRUE]
        ELSE [priority |-> 1, dependencies |-> <<>>, restartOnError |-> TRUE]]

RegisterCatalog ==
    \E id \in Ids, r \in BOOLEAN :
        /\ Len(services) < MaxSupervised
        /\ register(id, [Catalog[id] EXCEPT !.restartOnError = r])

\* register() with any priority and dependency array.  Identifiers are
\* opaque, so a new service takes the next unused one; a registered
\* identifier may be offered again.
Register ==
    \E id \in Registered \cup {AllIds[Len(services) + 1]} :
      \E p \in Priorities, d \in DepSeqs :
        /\ id \in Ids
        /\ register(id, [priority |-> p, dependencies |-> d, restartOnError |-> FALSE])

StartActions == Start \/ StartEnableReturns \/ StartResume

StopActions ==
    Stop \/ StopDisableReturns \/ StopTimeout \/ OrphanDisableReturns \/ StopResume

HealthActions == Tick \/ HealthReturns \/ TickResume \/ RestartReturns \/ RestartResume

\* The supervisor with its timer: registration of the catalog, start(),
\* stop(), health-check ticks and auto-restarts, interleaved at every await.
Next == RegisterCatalog \/ StartActions \/ StopActions \/ HealthActions

Spec == Init /\ [][Next]_vars

\* The batch operations alone, over every registry of up to MaxServices
\* services: register(), then start() and stop() called by a caller that
\* awaits each of them (as restart() does); operations that lost the
\* graceful-shutdown race stay in flight.
BatchIdle == startB.st \in {"idle", "done"} /\ stopB.st \in {"idle", "done"}

AwaitedStart == BatchIdle /\ Start

AwaitedStop == BatchIdle /\ Stop

NextBatch ==
    \/ Register
    \/ AwaitedStart \/ StartEnableReturns \/ StartResume
    \/ AwaitedStop \/ StopDisableReturns \/ StopTimeout \/ OrphanDisableReturns
    \/ StopResume

SpecBatch == Init /\ [][NextBatch]_vars

\* A service on its own: any interleaving of onEnableService,
\* onDisableService and healthCheck() calls on it by up to MaxCallers
\* concurrent callers.
NextService ==
    CallEnable \/ CallDisable \/ CallHealthCheck \/ CallerReturns \/ CallerHealthReturns

SpecService == Init /\ [][NextService]_vars

\* The targeted operations: registration of the catalog and startService /
\* stopService calls on any identifier, interleaved at every await.
NextTargeted ==
    RegisterCatalog \/ startService \/ stopService \/ TargetedReturns \/ TargetedResume

SpecTargeted == Init /\ [][NextTargeted]_vars

\* start() next to startService: services are started one by one or by the
\* batch, in any order and at any time, and nothing is stopped.
NextStarting ==
    \/ RegisterCatalog
    \/ startService \/ TargetedReturns \/ TargetedResume
    \/ Start \/ StartEnableReturns \/ StartResume

SpecStarting == Init /\ [][NextStarting]_vars

\* The events: handlers subscribed and unsubscribed at any time while the
\* catalog is registered and started.
NextEvents ==
    \/ onEvent \/ unsubscribe
    \/ RegisterCatalog
    \/ Start \/ StartEnableReturns \/ StartResume

SpecEvents == Init /\ [][NextEvents]_vars

\* ======================================================================
\* Properties
\* ======================================================================
DepsOf(s) == Range(config[s].dependencies)

RECURSIVE Reach(_, _)
Reach(S, n) == IF n = 0 THEN S ELSE Reach(S \cup UNION {DepsOf(x) : x \in S}, n - 1)

\* The transitive dependencies of s.
TransDeps(s) == Reach(DepsOf(s), Cardinality(Ids))

Count(seq, x) == Cardinality({i \in 1..Len(seq) : seq[i] = x})

HookFailures == {"throw", "timeout"}

\* C1: start() calls enable on a service only after it has called enable on
\* every transitive dependency of it and that call has returned (its result
\* is in succeeded or failed).
C1_StartOrder ==
    \A i \in 1..Len(startB.order) :
        \A d \in TransDeps(startB.order[i]) :
            /\ \E j \in 1..(i - 1) : startB.order[j] = d
            /\ d \in Range(startB.succeeded) \cup Range(startB.failed)

\* C1 witness: enable is being called on a service with two transitive
\* dependencies, one of which has a lower priority and one of which failed.
C1_Witness ==
    /\ startB.st = "hook"
    /\ Len(startB.order) = 3
    /\ LET s == startB.order[3]
       IN /\ Cardinality(TransDeps(s)) = 2
          /\ Cardinality(DepsOf(s)) = 1
          /\ \E d \in TransDeps(s) : config[d].priority < config[s].priority
          /\ \E d \in TransDeps(s) : lastError[d] \in HookFailures

\* C2: an enable whose hook threw or timed out leaves the service in ERROR
\* with lastError set to that error, and the call throws.
C2_EnableFailure ==
    (ret.op = "enable" /\ ret.outcome \in HookFailures)
        => /\ status[ret.svc] = sERROR
           /\ lastError[ret.svc] = ret.outcome
           /\ ret.thrown

\* C3: when start() records the result of a service whose enable hook was
\* invoked, it puts the service in failed exactly if the hook threw or timed
\* out, and in succeeded exactly if the hook succeeded.
C3_BatchResult ==
    [][(startB.st = "ready" /\ startB.outcome # "none" /\ startB' # startB)
        => LET s == Head(startB.queue)
           IN /\ s \in Range(startB'.failed) <=> startB.outcome \in HookFailures
              /\ s \in Range(startB'.succeeded) <=> startB.outcome = "ok"]_vars

\* C4: when start() has returned, enable has been called exactly once on
\* every registered service, and every registered service is exactly once
\* in succeeded or failed (and nothing else is).
C4_StartAttemptsAll ==
    startB.st = "done"
        => /\ \A s \in Ids : Count(startB.order, s) = (IF s \in Registered THEN 1 ELSE 0)
           /\ \A s \in Ids : Count(startB.succeeded \o startB.failed, s)
                                = (IF s \in Registered THEN 1 ELSE 0)

\* C4 witness: start() has returned over three services, the hook of the
\* first of which failed.
C4_Witness ==
    /\ startB.st = "done"
    /\ Len(startB.order) = 3
    /\ lastError[startB.order[1]] \in HookFailures
    /\ \E s \in Registered : DepsOf(s) # {}

\* C5: when a disable call returns (after its hook, or at once because the
\* service is DISABLED), the service is DISABLED and its startTime is null.
C5_DisableEndsDisabled ==
    /\ ret.op = "disable" => status[ret.svc] = sDISABLED /\ startTime[ret.svc] = NoTime
    /\ \A i \in 1..Len(calls) :
          (calls[i].op = "disable" /\ ~calls[i].hook)
              => status[calls[i].svc] = sDISABLED /\ startTime[calls[i].svc] = NoTime

\* C5 witness: a disable whose hook threw returns on a service that had
\* been enabled.
C5_Witness ==
    /\ ret.op = "disable"
    /\ ret.outcome = "throw"
    /\ lastError[ret.svc] = "throw"

\* C6: a disable whose hook threw or timed out keeps the error in lastError
\* and throws it to its caller.
C6_DisableFailure ==
    (ret.op = "disable" /\ ret.outcome \in HookFailures)
        => /\ lastError[ret.svc] = ret.outcome
           /\ ret.thrown

\* C7: while isShuttingDown is set, no auto-restart calls enable.
C7_NoRestartEnableInShutdown ==
    isShuttingDown
        => \A i \in 1..Len(calls) : ~(calls[i].op = "enable" /\ calls[i].by = "restart")

\* C8: stop() calls disable on a service only after it has called disable on
\* every service that has it as a transitive dependency.
C8_StopOrder ==
    \A i \in 1..Len(stopB.order) :
        \A d \in Registered :
            stopB.order[i] \in TransDeps(d) => \E j \in 1..(i - 1) : stopB.order[j] = d

\* C8 witness: stop() reaches the last of three services, a transitive
\* dependency of the other two, which does not have the lowest priority.
C8_Witness ==
    /\ Len(stopB.order) = 3
    /\ LET s == stopB.order[3]
       IN /\ \A d \in Registered \ {s} : s \in TransDeps(d)
          /\ \E d \in Registered : s \notin DepsOf(d) /\ s \in TransDeps(d)
          /\ \E d \in Registered : config[d].priority < config[s].priority

\* No batch interferes with the health checks: stop() was never called and
\* the one start() returned before the timer was set.
NoBatchInterference == nStops = 0 /\ nStarts <= 1

\* C9: without interference, an auto-restart that has ended made exactly one
\* disable call and then exactly one enable call, each tick starts at most
\* one auto-restart of a service, and once the auto-restarts of a service
\* have ended the service is ENABLED.
C9_OneRestartPerTick ==
    NoBatchInterference =>
        \A r \in restarts :
            /\ \A q \in restarts : (q.svc = r.svc /\ q.tick = r.tick) => q = r
            /\ r.st = "done" => r.disables = 1 /\ r.enables = 1 /\ r.op = "enable"
            /\ (\A q \in restarts : q.svc = r.svc => q.st = "done")
                  => status[r.svc] = sENABLED /\ startTime[r.svc] # NoTime

\* C9 witness: the auto-restart of a service with restartOnError has ended
\* after a health check that returned false, with no interference.
C9_Witness ==
    /\ NoBatchInterference
    /\ \E r \in restarts :
          /\ r.st = "done"
          /\ config[r.svc].restartOnError
          /\ ~r.hookFailed
          /\ lastError[r.svc] = NoError
          /\ status[r.svc] = sENABLED

\* C10: an auto-restart that has ended and whose disable or enable hook
\* failed has emitted exactly one SERVICE_ERROR "restart" event.
C10_RestartFailureReported ==
    \A r \in restarts : (r.st = "done" /\ r.hookFailed) => r.errors = 1

\* C11: when start() was called after a stop() had returned (as restart()
\* does) and has returned, a tick of the health-check timer health-checks
\* the ENABLED services: it calls healthCheck() on the first of them.
C11_HealthChecksAfterRestart ==
    [][(nTicks' = nTicks + 1 /\ startB.st = "done" /\ startB.afterStop
            /\ stopB.st = "done" /\ NextEnabledFrom(1) # 0)
        => calls' = <<HealthCall(services[NextEnabledFrom(1)])>>]_vars

\* C12: an onEnableService call on a service that is not DISABLED does not
\* invoke the enable hook and throws to its caller.
C12_EnableWhenActive ==
    [][\A i \in 1..Len(calls') :
          (calls'[i].op = "enable" /\ status[calls'[i].svc] # sDISABLED)
              => ~calls'[i].hook /\ calls'[i].thrown]_vars

\* C13: in every state, a service that is ENABLED has a startTime and a
\* service that is DISABLED has none.
C13_StartTimeInvariant ==
    \A s \in Ids :
        /\ status[s] = sENABLED => startTime[s] # NoTime
        /\ status[s] = sDISABLED => startTime[s] = NoTime

\* C13 witness: an enable returns on a service while a disable called on
\* it in the meantime is still awaiting its hook.
C13_Witness ==
    /\ ret.op = "enable"
    /\ status[ret.svc] = sENABLED
    /\ \E c \in 1..MaxCallers :
          callers[c].op = "disable" /\ callers[c].st = "hook" /\ callers[c].svc = ret.svc

\* C14: a healthCheck() call on a service that is not ENABLED returns false
\* at once, without invoking the health hook and without changing any
\* status or lastError.
C14_HealthCheckWhenInactive ==
    [][\A i \in 1..Len(calls') :
          (calls'[i].op = "health" /\ status[calls'[i].svc] # sENABLED)
              => /\ ~calls'[i].hook
                 /\ ret'.op = "health" /\ ret'.svc = calls'[i].svc /\ ~ret'.healthy
                 /\ status' = status
                 /\ lastError' = lastError]_vars

\* C14 witness: healthCheck() has returned false without its hook on a
\* service that is being enabled.
C14_Witness ==
    /\ ret.op = "health"
    /\ ret.outcome = "none"
    /\ status[ret.svc] = sENABLING

\* C15: a register() call never throws; if the identifier is registered
\* already or a declared dependency is not registered, it returns a failure,
\* emits nothing and leaves the services map (and the services in it)
\* unchanged; otherwise it returns success and the service is stored last.
C15_RegisterResult ==
    [][(ret'.op = "register" /\ ret' # ret)
        => LET id == ret'.svc
               deps == Range(ret'.cfg.dependencies)
               rejected == id \in Registered \/ ~(deps \subseteq Registered)
           IN /\ ~ret'.thrown
              /\ rejected => /\ ~ret'.success
                             /\ emitted' = <<>>
                             /\ services' = services
                             /\ config' = config
              /\ ~rejected => /\ ret'.success
                              /\ services' = Append(services, id)
                              /\ config' = [config EXCEPT ![id] = ret'.cfg]]_vars

\* C15 witness: register() has returned a failure for a new service one of
\* whose dependencies is not registered, with another service registered.
C15_Witness ==
    /\ ret.op = "register"
    /\ ~ret.success
    /\ ret.svc \notin Registered
    /\ Registered # {}
    /\ \E d \in Range(ret.cfg.dependencies) : d \notin Registered

\* C16: in every state, each dependency of a registered service is a service
\* registered before it, and getSortedServices does not throw and returns
\* every registered service once.
C16_DependenciesAcyclic ==
    /\ \A i \in 1..Len(services) :
          \A d \in DepsOf(services[i]) : \E j \in 1..(i - 1) : services[j] = d
    /\ ~getSortedServicesThrows
    /\ Len(getSortedServices) = Len(services)
    /\ Range(getSortedServices) = Registered

\* C16 witness: start() has returned over three services, one of which has
\* two dependencies, one of them depending on the other.
C16_Witness ==
    /\ startB.st = "done"
    /\ Len(services) = 3
    /\ \E s \in Registered :
          /\ Cardinality(DepsOf(s)) = 2
          /\ \E d \in DepsOf(s) : DepsOf(d) # {}

\* Every declared dependency of id is ENABLED.
DepsRunning(id) == \A d \in DepsOf(id) : status[d] = sENABLED

\* The registered services that are ENABLED and have id among their
\* dependencies.
RunningDependents(id) == {s \in Registered : id \in DepsOf(s) /\ status[s] = sENABLED}

\* C17: a startService(id) call is rejected with not-found if id is not
\* registered and with dependency-not-running if a dependency of id is not
\* ENABLED, and then it calls nothing and changes no status; a startService
\* call that is not rejected calls onEnableService once, on id, and nothing
\* else, and this happens only if id is registered with all its
\* dependencies ENABLED.
C17_StartServiceValidation ==
    [][/\ (ret'.op = "startService" /\ ret'.error # "none" /\ ret' # ret)
            => /\ calls' = <<>>
               /\ status' = status
               /\ ret'.error = "not_found" <=> ret'.svc \notin Registered
               /\ ret'.error = "dependency_not_running"
                    <=> ret'.svc \in Registered /\ ~DepsRunning(ret'.svc)
       /\ \A i \in 1..Len(calls') : calls'[i].by = "startService"
            => /\ calls'[i].svc \in Registered
               /\ DepsRunning(calls'[i].svc)
               /\ calls'[i].op = "enable"
               /\ Len(calls') = 1
               /\ \A s \in Ids \ {calls'[i].svc} : status'[s] = status[s]]_vars

\* C17 witness: startService has been rejected with dependency-not-running
\* for a service whose dependency is being enabled.
C17_Witness ==
    /\ ret.op = "startService"
    /\ ret.error = "dependency_not_running"
    /\ \E d \in DepsOf(ret.svc) : status[d] = sENABLING

\* C18: a stopService(id) call calls onDisableService (on id, once) only
\* if no registered ENABLED service has id among its dependencies; it is
\* rejected with dependents-still-running exactly if id is registered and
\* there is one, and then it calls nothing and changes no status; and when
\* the onDisableService call it made returns, id is DISABLED.
C18_StopServiceValidation ==
    [][/\ (ret'.op = "stopService" /\ ret'.error # "none" /\ ret' # ret)
            => /\ calls' = <<>>
               /\ status' = status
               /\ ret'.error = "dependents_running"
                    <=> ret'.svc \in Registered /\ RunningDependents(ret'.svc) # {}
       /\ \A i \in 1..Len(calls') : calls'[i].by = "stopService"
            => /\ RunningDependents(calls'[i].svc) = {}
               /\ calls'[i].op = "disable"
               /\ Len(calls') = 1
               /\ \A s \in Ids \ {calls'[i].svc} : status'[s] = status[s]
               /\ ~calls'[i].hook => status'[calls'[i].svc] = sDISABLED
       /\ (ret'.op = "disable" /\ ret'.by = "stopService")
            => status'[ret'.svc] = sDISABLED]_vars

\* C18 witness: stopService is disabling a service whose dependent was
\* running and has been stopped (its disable hook failed).
C18_Witness ==
    /\ Len(calls) = 1
    /\ calls[1].by = "stopService"
    /\ calls[1].hook
    /\ \E s \in Registered :
          /\ calls[1].svc \in DepsOf(s)
          /\ status[s] = sDISABLED
          /\ lastError[s] \in HookFailures

\* C19: a startService / stopService call whose enable / disable hook threw
\* or timed out does not return normally.
C19_TargetedPropagates ==
    (ret.op \in {"startService", "stopService"} /\ ret.outcome \in HookFailures)
        => ret.error # "none"

\* C20: when stop() records the result of a service whose disable hook
\* threw or timed out, or whose disable lost the race against the
\* graceful-shutdown deadline, it puts the service in failed; and when
\* stop() has returned, disable has been called exactly once on every
\* registered service and each is exactly once in succeeded or failed.
C20_StopAttemptsAll ==
    [][/\ (stopB.st = "ready" /\ stopB.queue # <<>> /\ stopB' # stopB
              /\ (stopB.outcome \in HookFailures \/ stopB.timedOut))
            => Head(stopB.queue) \in Range(stopB'.failed)
       /\ stopB'.st = "done"
            => \A s \in Ids :
                 /\ Count(stopB'.order, s) = (IF s \in Registered THEN 1 ELSE 0)
                 /\ Count(stopB'.succeeded \o stopB'.failed, s)
                      = (IF s \in Registered THEN 1 ELSE 0)]_vars

\* The functions of the registrations in S, in registration order.
RECURSIVE InRegistrationOrder(_)
InRegistrationOrder(S) ==
    IF S = {} THEN <<>>
    ELSE LET first == CHOOSE u \in S : \A v \in S : u.reg <= v.reg
         IN <<first.fn>> \o InRegistrationOrder(S \ {first})

\* C21: the handlers an emitted event invokes are invoked in the order of
\* their registration with onEvent, whether registered for the event type
\* or for the wildcard.
C21_DispatchInRegistrationOrder ==
    \A i \in 1..Len(emitted) :
        [a \in 1..Len(invoked(i)) |-> invoked(i)[a].fn]
            = InRegistrationOrder(Range(eventHandlers[emitted[i].event])
                                      \cup Range(eventHandlers[Wildcard]))

\* The registrations subscribed to an event type: those in its array and
\* those in the wildcard's.
Subscribed(eventType) ==
    {eventHandlers[eventType][j].reg : j \in 1..Len(eventHandlers[eventType])}
        \cup {eventHandlers[Wildcard][j].reg : j \in 1..Len(eventHandlers[Wildcard])}

\* C22: every registration subscribed to an emitted event is invoked exactly
\* once, also when a handler invoked before it throws; and register() and
\* start(), which emit inside a try block, still report success: register
\* returns success, start puts the service in succeeded and emits no
\* SERVICE_ERROR.
C22_ThrowingHandlerIsolated ==
    /\ \A i \in 1..Len(emitted) :
          \A r \in Subscribed(emitted[i].event) :
              Cardinality({a \in 1..Len(invoked(i)) : invoked(i)[a].reg = r}) = 1
    /\ (ret.op = "register" /\ emitted # <<>>) => ret.success /\ ~ret.thrown
    /\ \A i \in 1..Len(emitted) :
          emitted[i].event = "service_started" =>
              /\ emitted[i].serviceId \in Range(startB.succeeded)
              /\ \A j \in 1..Len(emitted) : emitted[j].event # "service_error"

\* C22 witness: start() has emitted SERVICE_STARTED to a handler that
\* throws and then to handlers that do not, one subscribed to the event type
\* and one to the wildcard.
C22_Witness ==
    /\ emitted # <<>>
    /\ emitted[1].event = "service_started"
    /\ Len(invoked(1)) = 3
    /\ HandlerThrows(invoked(1)[1].fn)
    /\ ~HandlerThrows(invoked(1)[2].fn)
    /\ ~HandlerThrows(invoked(1)[3].fn)
    /\ Len(eventHandlers[Wildcard]) = 1

\* C29: the array of every event type holds, in registration order, the
\* handlers of exactly the registrations for that type whose unsubscribe
\* callback has not been called: a callback removes its own registration and
\* nothing else, and calling it again removes nothing.
C29_UnsubscribeOwnRegistration ==
    \A k \in EventTypes :
        [i \in 1..Len(eventHandlers[k]) |-> eventHandlers[k][i].fn]
            = InRegistrationOrder({u \in unsubscribes : u.eventType = k /\ ~u.called})

C24_DisableWhenDisabled ==
    [][\A i \in 1..Len(calls') :
          (calls'[i].op = "disable" /\ status[calls'[i].svc] = sDISABLED)
              => /\ ~calls'[i].hook
                 /\ ~calls'[i].thrown
                 /\ status' = status
                 /\ startTime' = startTime
                 /\ lastError' = lastError]_vars

\* The services whose stopSingleService of the current stop() batch has
\* begun and is not finished: the one the batch awaits and those that lost
\* the race against the graceful-shutdown timer.
StopsInProgress ==
    {o.svc : o \in {p \in orphans : p.n = nStops}}
        \cup (IF stopB.st = "hook" THEN {Head(stopB.queue)} ELSE {})

\* C25: at most one service of a batch has its operation in progress, also
\* after the graceful-shutdown deadline of stop() has fired.
C25_BatchSequential == Cardinality(StopsInProgress) <= 1

\* The reference order.  Its seed: the registered services by descending
\* priority, those of one priority in registration order.
RefSeed ==
    LET n == Len(services)
        pos(s) == CHOOSE i \in 1..n : services[i] = s
        before(s, u) == \/ config[s].priority > config[u].priority
                        \/ config[s].priority = config[u].priority /\ pos(s) < pos(u)
    IN CHOOSE seq \in [1..n -> Registered] :
           \A a, b \in 1..n : a < b => before(seq[a], seq[b])

\* A service is emitted right after its dependencies, visited depth-first
\* in the declared order, are all emitted; a service emitted already is not
\* emitted again.
RECURSIVE RefEmit(_, _)
RECURSIVE RefEmitAll(_, _)
RefEmit(out, s) ==
    IF s \in Range(out) THEN out
    ELSE Append(RefEmitAll(out, config[s].dependencies), s)

RefEmitAll(out, seq) ==
    IF seq = <<>> THEN out ELSE RefEmitAll(RefEmit(out, Head(seq)), Tail(seq))

RefOrder == RefEmitAll(<<>>, RefSeed)

\* C26: the services start() has called enable on so far are a prefix of the
\* reference order, and all of it when start() has returned; when no service
\* declares a dependency their priorities never increase along the order.
C26_StartOrderIsReference ==
    nStarts > 0
        => /\ Len(startB.order) <= Len(RefOrder)
           /\ startB.order = SubSeq(RefOrder, 1, Len(startB.order))
           /\ startB.st = "done" => startB.order = RefOrder
           /\ (\A s \in Registered : config[s].dependencies = <<>>)
                 => \A a, b \in 1..Len(startB.order) :
                        a < b => config[startB.order[a]].priority
                                     >= config[startB.order[b]].priority

\* C26 witness: start() has returned over three services, two of them of the
\* same priority and neither depending on the other, where a dependency put
\* a service of lower priority before one of higher priority.
C26_Witness ==
    /\ startB.st = "done"
    /\ Len(startB.order) = 3
    /\ \E s, u \in Registered :
          /\ s # u
          /\ config[s].priority = config[u].priority
          /\ s \notin TransDeps(u) /\ u \notin TransDeps(s)
    /\ \E a, b \in 1..3 :
          a < b /\ config[startB.order[a]].priority < config[startB.order[b]].priority

\* The number of enable / disable hooks of s that have been invoked and have
\* not settled: those awaited by start(), by stop(), by the operations that
\* lost stop()'s race, by the auto-restarts and by direct or targeted calls.
HooksInProgress(s) ==
    (IF startB.st = "hook" /\ Head(startB.queue) = s THEN 1 ELSE 0)
    + (IF stopB.st = "hook" /\ Head(stopB.queue) = s THEN 1 ELSE 0)
    + Cardinality({o \in orphans : o.svc = s})
    + Cardinality({r \in restarts : r.st = "hook" /\ r.svc = s})
    + Cardinality({c \in 1..MaxCallers :
                      callers[c].st = "hook" /\ callers[c].svc = s
                          /\ callers[c].op # "health"})

\* C27: no service ever has two enable / disable hooks in progress.
C27_NoOverlappingHooks == \A s \in Ids : HooksInProgress(s) <= 1

\* The enable of s failed and no disable has been called on s since: no
\* stop() and no health-check tick has begun, so the failure in lastError is
\* the enable's and no auto-restart has run, and no hook of s is pending.
EnableFailed(s) ==
    /\ nStops = 0 /\ nTicks = 0
    /\ \A c \in 1..MaxCallers : callers[c].st = "idle"
    /\ lastError[s] \in HookFailures
    /\ HooksInProgress(s) = 0

\* C28: a service whose enable failed is in ERROR and stays there until
\* disable is called on it: a step that calls no disable on it leaves it in
\* ERROR and invokes neither an enable hook nor a health hook on it.
C28_ErrorIsSticky ==
    [][\A s \in Registered :
          (EnableFailed(s)
              /\ ~\E i \in 1..Len(calls') : calls'[i].svc = s /\ calls'[i].op = "disable")
          => /\ status[s] = sERROR
             /\ status'[s] = sERROR
             /\ \A i \in 1..Len(calls') : calls'[i].svc = s => ~calls'[i].hook]_vars

\* C30: a step in which start() calls enable while every registered service
\* is ENABLED invokes no enable hook and changes no service's status,
\* startTime or lastError.
C30_StartIdempotent ==
    [][\A i \in 1..Len(calls') :
          (calls'[i].by = "start" /\ \A s \in Registered : status[s] = sENABLED)
              => /\ ~calls'[i].hook
                 /\ status' = status
                 /\ startTime' = startTime
                 /\ lastError' = lastError]_vars

====
